---- MODULE Spec2Model ----
(***************************************************************************)
(* touchcount: the Jenga turn timer (src/src/App.tsx) and the tap-rank     *)
(* timer with its top-5 ranking store (src/unnamed/part_000).              *)
(*                                                                         *)
(* Granularity: one action is one event handler or timer callback together *)
(* with the React render and effect pass that it causes.  What a callback  *)
(* closes over (the render whose effect or useCallback created it) is      *)
(* state of its own: tickEnv for the turn timer's interval, and the        *)
(* duration, count and bucket fields of pendingStarts, readyTimer and      *)
(* activeTimer for the tap timer's start().                                *)
(***************************************************************************)
EXTENDS Integers, Sequences, FiniteSets, TLC

VARIABLES
    \* ---- Jenga turn timer (App.tsx) ----
    numPlayers, timePerTurn, currentPlayer, running, gameOver, started,
    gameHistory, deadlineRef, remainingMs, playerNames, audioPrimed,
    audioPending, lastSecondRef, resetHoldRef, tickEnv, nowMs, games,
    historyRaw,       \* what localStorage held under "jengaGameHistory" at mount
    historyKind,      \* the shape of the gameHistory state; "threw" once its updater raised
    resetPress,       \* the pointer that went down on the reset button: still down? since when?
    \* ---- tap-rank: the ranking store (part_000) ----
    ls,               \* localStorage: key -> stored text
    ranksByDuration,  \* the component's buckets
    rkFocus,          \* the duration the store's operations are applied to
    rkSubmitted,      \* bag of the entries submitted since the bucket was empty
    rkFromEmpty,      \* the bucket was built from empty by submits alone
    rkCleared,        \* the bucket's key was cleared and not written since
    rkOut,            \* the last operation of the store and what it returned
    \* ---- tap-rank: the tap session (part_000) ----
    useRemote,        \* USE_REMOTE, fixed per build
    duration, phase, view, remaining, count, showNameDialog,
    lastPointerIdRef,
    pressed,          \* pointer ids whose down was counted and that are not up yet
    readyTimer,       \* the interval of readyTimerRef: its pre and its closure
    activeTimer,      \* the interval of activeTimerRef: its left and its closure
    holdTimer,        \* the timeout of resetHoldTimerRef is pending
    pendingStarts,    \* start() calls suspended at await sfx.resume()
    server,           \* the remote scoreboard, per duration
    gets,             \* durations whose remoteLoadRank of the rankings effect is in flight
    saveFlow,         \* the saveName call in flight
    posts,            \* number of scores registered
    tevt,             \* the last tap, expiry or remote load, and what it did
    session,          \* the session since its start(): ticks passed, taps counted
    holdDown,         \* the press that went down on the reset button is still down
    cue               \* the second for which the tick of this step called playBeep(), if it did

jvars == << numPlayers, timePerTurn, currentPlayer, running, gameOver, started,
            gameHistory, deadlineRef, remainingMs, playerNames, audioPrimed,
            audioPending, lastSecondRef, resetHoldRef, tickEnv, nowMs, games,
            historyRaw, historyKind, resetPress, cue >>

\* the store's buckets and storage, its history, and the tap session
svars == << ls, ranksByDuration >>
gvars == << rkFocus, rkSubmitted, rkFromEmpty, rkCleared, rkOut >>
rvars == << svars, gvars >>
tvars == << useRemote, duration, phase, view, remaining, count, showNameDialog,
            lastPointerIdRef, pressed, readyTimer, activeTimer, holdTimer,
            pendingStarts, server, gets, saveFlow, posts, tevt, session,
            holdDown >>

vars == << jvars, rvars, tvars >>

\* the two applications share nothing: a step of one leaves the other alone
ClockOnly == UNCHANGED << rvars, tvars >>
RankOnly == UNCHANGED << jvars, tvars >>
TapOnly == UNCHANGED << jvars, gvars >>

\* ------------------------------------------------------------------ bounds
\* setInterval(tick, 100)
PollMs == 100
\* how many poll periods the hold of the reset button is followed for
MaxPolls == 12
MaxTurnPolls == 52
\* clock steps per second of model time (the clock advances by StepMs)
StepsPerSec == 1
\* seconds of model time
MaxSeconds == 11
\* number of games started in one behaviour
MaxGames == 1
\* number of entries submitted to a bucket that started empty
MaxSubmits == 6
\* the scores of submitted entries are 0..MaxScore
MaxScore == 2
\* the longest list handed to saveRank
MaxSaveLen == 6
\* taps counted in one session
MaxTaps == 3
\* start() calls suspended at once
MaxPendingStarts == 1
\* scores registered in one behaviour
MaxPosts == 1

StepMs == 1000 \div StepsPerSec
MaxNowMs == MaxSeconds * 1000

\* ------------------------------------------------------- program constants
\* JavaScript null (deadlineRef, lastSecondRef, lastPointerIdRef)
NULL == -1
MAX_HISTORY_ITEMS == 50
RESET_HOLD_MS == 800
\* thresholds of the countdown cue: sec <= 5 && sec > 0
BEEP_FROM_SEC == 5
\* the options of the two <select> elements (of the seconds, the least and the
\* initial one)
PlayerOptions == {2, 3, 4}
TimeOptions == {5, 10}
DefaultNames == << "Player 1", "Player 2", "Player 3", "Player 4" >>
\* what the name inputs are edited to, per input, and the inputs that are edited
EditedNames == << "Alice", "Bob", "Carol", "Dave" >>
EditedInputs == {2}

\* ------------------------------------------------------------ pure helpers
Max(a, b) == IF a >= b THEN a ELSE b
Min(a, b) == IF a <= b THEN a ELSE b

\* Math.max(0, Math.ceil(ms / 1000))
ceilSecs(ms) == IF ms <= 0 THEN 0 ELSE (ms + 999) \div 1000

\* (p + 1) % n
nextIdxNoWrap(p, n) == p + 1
nextIdx(p, n) == (p + 1) % n

\* arr.slice(0, n)
Slice(arr, n) == SubSeq(arr, 1, Min(n, Len(arr)))

\* the render a tick closure was created in
NoEnv == [live |-> FALSE, currentPlayer |-> 0, numPlayers |-> 0,
          playerNames |-> << >>, audioPrimed |-> FALSE]
Capture(cp, np, names, primed) ==
    [live |-> TRUE, currentPlayer |-> cp, numPlayers |-> np,
     playerNames |-> names, audioPrimed |-> primed]

\* the loser the tick callback records: playerNames[currentPlayer] of its closure
LoserOf(env) == env.playerNames[env.currentPlayer + 1]

\* const newHistory = { loser, timestamp, players: playerNames.slice(0, numPlayers) }
NewHistory(env, t) ==
    [loser |-> LoserOf(env), timestamp |-> t,
     players |-> Slice(env.playerNames, env.numPlayers)]

\* (prev) => [newHistory, ...prev].slice(0, MAX_HISTORY_ITEMS)
PrependNoSlice(e, prev) == << e >> \o prev
Prepend(e, prev) == Slice(<< e >> \o prev, MAX_HISTORY_ITEMS)

\* One run of tick() of closure env, with the refs and state it reads given as
\* arguments; the result is what it writes.
\* the cue branch of tick(), inside if (sec !== lastSecondRef.current)
CueDueAtLevel(changed, sec, primed) == sec <= BEEP_FROM_SEC /\ sec > 0 /\ primed
CueDue(changed, sec, primed) == changed /\ sec <= BEEP_FROM_SEC /\ sec > 0 /\ primed

TickStep(env, dl, lastSec, hist, t) ==
    LET left == dl - t
        sec == ceilSecs(left)
        changed == sec # lastSec
        over == left <= 0
    IN  [remainingMs |-> Max(0, left),
         lastSecondRef |-> sec,
         beep |-> CueDue(changed, sec, env.audioPrimed),
         over |-> over,
         gameHistory |-> IF over THEN Prepend(NewHistory(env, t), hist) ELSE hist]

\* ensureAudioPrimed(): a fresh context whose resume() is awaited, unless primed
EnsureAudioPrimed ==
    audioPending' = IF audioPrimed THEN audioPending ELSE TRUE

\* ------------------------------------------------- ranking store helpers
\* type Duration; const DURATIONS
DURATIONS == << 3, 5, 10, 30, 60 >>
DurationSet == { DURATIONS[i] : i \in 1..Len(DURATIONS) }
\* the size of a bucket: slice(0, 5), entries.length < 5
TOP_N == 5

\* const LS_KEY = (d) => `taprank_${d}`
LS_KEY(d) == << "taprank_", d >>
LsKeys == { LS_KEY(d) : d \in DurationSet }

\* type RankEntry = { name, score, date }
Entry(n, s, d) == [name |-> n, score |-> s, date |-> d]

\* new Date().toISOString() of clock reading t: a string of fixed width
toISOString(t) == << t \div 10, t % 10 >>

\* a.localeCompare(b) of two strings of digits: the sign of the first difference
localeCompare(a, b) ==
    LET n == Min(Len(a), Len(b))
        diff == { i \in 1..n : a[i] # b[i] }
    IN  IF diff = {}
        THEN (IF Len(a) < Len(b) THEN -1 ELSE IF Len(a) > Len(b) THEN 1 ELSE 0)
        ELSE LET i == CHOOSE k \in diff : \A j \in diff : k <= j
             IN  IF a[i] < b[i] THEN -1 ELSE 1

\* the comparator of list.sort: b.score - a.score || a.date.localeCompare(b.date)
cmpScoreOnly(a, b) == b.score - a.score
cmp(a, b) ==
    IF b.score - a.score # 0 THEN b.score - a.score
    ELSE localeCompare(a.date, b.date)

\* Array.prototype.sort is stable: e goes behind every element it does not precede
InsertStable(acc, e) ==
    LET later == { i \in 1..Len(acc) : cmp(acc[i], e) > 0 }
        k == IF later = {} THEN Len(acc) + 1
             ELSE CHOOSE i \in later : \A j \in later : i <= j
    IN  SubSeq(acc, 1, k - 1) \o << e >> \o SubSeq(acc, k, Len(acc))

RECURSIVE SortInto(_, _)
SortInto(acc, list) ==
    IF list = << >> THEN acc
    ELSE SortInto(InsertStable(acc, Head(list)), Tail(list))

\* list.sort(cmp)
Sort(list) == SortInto(<< >>, list)

\* saveName, local branch: list.push(entry); list.sort(...); list.slice(0, 5)
LocalSubmit(list, e) == Slice(Sort(Append(list, e)), TOP_N)

\* the text localStorage holds under a key, and the absent key
Missing == [kind |-> "missing", items |-> << >>]
Text(kind) == [kind |-> kind, items |-> << >>]
\* texts that are no JSON array: "", "not-json", "{}", "null", "7"
CorruptKinds == {"empty", "garbage", "object", "null", "number"}

\* JSON.stringify(entries): the objects' fields in the order name, score, date
JSONstringify(entries) ==
    [kind |-> "array",
     items |-> [i \in 1..Len(entries) |->
                  << entries[i].name, entries[i].score, entries[i].date >>]]

\* JSON.parse(text): throws on text that is no JSON; an array of objects otherwise
JSONparse(raw) ==
    [threw |-> raw.kind \in {"garbage", "empty"},
     isArray |-> raw.kind = "array",
     value |-> IF raw.kind = "array"
               THEN [i \in 1..Len(raw.items) |->
                       Entry(raw.items[i][1], raw.items[i][2], raw.items[i][3])]
               ELSE << raw.kind >>]

\* loadRank(duration); threw says whether the call raised
loadRankNoCatch(store, d) ==
    LET raw == store[LS_KEY(d)]
        p == JSONparse(raw)
    IN  IF raw.kind \in {"missing", "empty"} THEN [threw |-> FALSE, value |-> << >>]
        ELSE IF p.threw THEN [threw |-> TRUE, value |-> << >>]
        ELSE [threw |-> FALSE, value |-> IF p.isArray THEN p.value ELSE << >>]
loadRank(store, d) ==
    LET raw == store[LS_KEY(d)]
        p == JSONparse(raw)
    IN  IF raw.kind \in {"missing", "empty"} THEN [threw |-> FALSE, value |-> << >>]
        ELSE IF p.threw THEN [threw |-> FALSE, value |-> << >>]
        ELSE [threw |-> FALSE, value |-> IF p.isArray THEN p.value ELSE << >>]

\* saveRank(duration, entries)
saveRankNoTrim(store, d, entries) ==
    [store EXCEPT ![LS_KEY(d)] = JSONstringify(entries)]
saveRank(store, d, entries) ==
    [store EXCEPT ![LS_KEY(d)] = JSONstringify(Slice(entries, TOP_N))]

\* clearRankStorage(duration): removeItem, then setItem of "[]"
clearRankStorageFirstKey(store, d) ==
    [store EXCEPT ![LS_KEY(DURATIONS[1])] = JSONstringify(<< >>)]
clearRankStorage(store, d) ==
    LET removed == [store EXCEPT ![LS_KEY(d)] = Missing]
    IN  [removed EXCEPT ![LS_KEY(d)] = JSONstringify(<< >>)]

\* qualifies(entries, score)
qualifiesTies(entries, score) ==
    IF Len(entries) < TOP_N THEN TRUE
    ELSE score >= entries[Len(entries)].score
qualifies(entries, score) ==
    IF Len(entries) < TOP_N THEN TRUE
    ELSE score > entries[Len(entries)].score

\* useState(() => { DURATIONS.forEach((d) => (init[d] = loadRank(d))) })
InitialRanks(store) == [d \in DurationSet |-> loadRank(store, d).value]

\* ------------------------------------------------ ranking store, inputs
RankNames == {"A"}
\* clock readings of new Date(): 9 and 10 differ in both digits
DateClock == {9, 10}
EntryUniverse ==
    { Entry(n, sc, toISOString(t)) : n \in RankNames, sc \in 0..MaxScore, t \in DateClock }
\* scores qualifies is asked about: below, within and above the stored ones
ProbeScores == -1..(MaxScore + 1)
\* the durations whose keys the store's operations are applied to
RankFocus == {3, 5}
OtherFocus(d) == IF d = 3 THEN 5 ELSE 3
\* a bucket an earlier visit stored
SeedBucket == << Entry("A", 2, toISOString(9)), Entry("A", 1, toISOString(10)) >>
\* lists handed to saveRank: as the self test's, scores ascending, and single entries
SelfTestList(n) ==
    [i \in 1..n |-> Entry("A", i % (MaxScore + 1), toISOString(10 + i))]
SaveInputs ==
    { SelfTestList(n) : n \in 0..MaxSaveLen } \cup { << e >> : e \in EntryUniverse }

EmptyBag == [e \in EntryUniverse |-> 0]
BagCount(bag) ==
    LET RECURSIVE Sum(_)
        Sum(S) == IF S = {} THEN 0
                  ELSE LET e == CHOOSE x \in S : TRUE IN bag[e] + Sum(S \ {e})
    IN  Sum(DOMAIN bag)

NoOut == [op |-> "none", d |-> 0, arg |-> << >>, score |-> 0, ok |-> FALSE,
          threw |-> FALSE, value |-> << >>]

\* the store at rest, for the specifications that do not exercise it
GhostIdle ==
    /\ rkFocus = 3
    /\ rkSubmitted = EmptyBag
    /\ rkFromEmpty = TRUE
    /\ rkCleared = FALSE
    /\ rkOut = NoOut

RankIdle ==
    /\ ls = [k \in LsKeys |-> Missing]
    /\ ranksByDuration = InitialRanks(ls)
    /\ GhostIdle

InitRank ==
    /\ rkFocus \in RankFocus
    /\ ls = [k \in LsKeys |-> IF k = LS_KEY(OtherFocus(rkFocus))
                              THEN JSONstringify(SeedBucket) ELSE Missing]
    /\ ranksByDuration = InitialRanks(ls)
    /\ rkSubmitted = EmptyBag
    /\ rkFromEmpty = TRUE
    /\ rkCleared = FALSE
    /\ rkOut = NoOut

\* ------------------------------------------------- tap session, inputs
\* the durations that are selected (the initial one is 10)
TapDurations == {3, 10}
PointerIds == {1, 2}
\* the same, where the scoreboard is exercised
BoardDurations == {3}
BoardPointers == {1}
READY_TICKS == 3
CUE_FROM_SEC == 3
\* a full bucket an earlier visit stored under the 3 s key, least score 0
SeedFull ==
    << Entry("A", 2, toISOString(9)), Entry("A", 2, toISOString(10)),
       Entry("A", 1, toISOString(9)), Entry("A", 1, toISOString(10)),
       Entry("A", 0, toISOString(9)) >>
\* what the scoreboard holds for 3 s: one entry more than a bucket takes
SeedServer == SeedFull \o << Entry("A", 0, toISOString(10)) >>

NoTimer == [live |-> FALSE, n |-> 0, duration |-> 0, count |-> 0, bucket |-> << >>]
NoEvt == [op |-> "none", id |-> 0, counted |-> FALSE, qualified |-> FALSE]

\* no start() has run since mount or the last reset()
NoSession == [live |-> FALSE, ticks |-> 0, taps |-> 0, D |-> 0, cues |-> << >>]

TapIdle ==
    /\ useRemote = TRUE
    /\ duration = 10
    /\ phase = "idle"
    /\ view = "game"
    /\ remaining = 10
    /\ count = 0
    /\ showNameDialog = FALSE
    /\ lastPointerIdRef = NULL
    /\ pressed = {}
    /\ readyTimer = NoTimer
    /\ activeTimer = NoTimer
    /\ holdTimer = NULL
    /\ pendingStarts = << >>
    /\ server = [d \in DurationSet |-> << >>]
    /\ gets = {}
    /\ saveFlow = << >>
    /\ posts = 0
    /\ tevt = NoEvt
    /\ session = NoSession
    /\ holdDown = FALSE

InitTap ==
    /\ useRemote \in BOOLEAN
    /\ duration = 10
    /\ phase = "idle"
    /\ view = "game"
    /\ remaining = 10
    /\ count = 0
    /\ showNameDialog = FALSE
    /\ lastPointerIdRef = NULL
    /\ pressed = {}
    /\ readyTimer = NoTimer
    /\ activeTimer = NoTimer
    /\ holdTimer = NULL
    /\ pendingStarts = << >>
    /\ server = [d \in DurationSet |-> IF d = 3 THEN SeedServer ELSE << >>]
    /\ gets = {}
    /\ saveFlow = << >>
    /\ posts = 0
    /\ tevt = NoEvt
    /\ session = NoSession
    /\ holdDown = FALSE
    /\ ls = [k \in LsKeys |-> IF k = LS_KEY(3) THEN JSONstringify(SeedFull) ELSE Missing]
    /\ ranksByDuration = InitialRanks(ls)
    /\ GhostIdle

\* ------------------------------------------------------------------- Init
\* useState(() => { saved ? JSON.parse(saved) : [] } catch { [] })
loadHistory(raw) ==
    IF raw.kind \in {"missing", "empty", "garbage"}
    THEN [kind |-> "array", value |-> << >>]
    ELSE [kind |-> raw.kind, value |-> raw.items]

\* JSON.stringify(gameHistory), as the save effect writes it
HistoryText(hist) == [kind |-> "array", items |-> hist]

\* no pointer is down on the reset button
NoPress == [down |-> FALSE, at |-> 0]

\* the component's state after mount, but for the history
InitClockState ==
    /\ numPlayers = 2
    /\ timePerTurn = 10
    /\ currentPlayer = 0
    /\ running = FALSE
    /\ gameOver = FALSE
    /\ started = FALSE
    /\ deadlineRef = NULL
    /\ remainingMs = 0
    /\ playerNames = DefaultNames
    /\ audioPrimed = FALSE
    /\ audioPending = FALSE
    /\ lastSecondRef = NULL
    /\ resetHoldRef = [timer |-> FALSE, at |-> 0, held |-> FALSE]
    /\ tickEnv = NoEnv
    /\ nowMs = 0
    /\ games = 0
    /\ resetPress = NoPress
    /\ cue = NULL

\* the history as loaded from what the key holds
InitHistoryFrom(raw) ==
    /\ historyRaw = raw
    /\ historyKind = loadHistory(raw).kind
    /\ gameHistory = loadHistory(raw).value

\* a first visit: nothing stored
InitClock == InitClockState /\ InitHistoryFrom(Missing)

\* ----------------------------------------------------- Jenga turn timer
clockPhase ==
    IF ~started THEN "idle" ELSE IF gameOver THEN "over" ELSE "running"

\* resetAll(): deadlineRef.current = null
ResetDeadlineKeep == deadlineRef
ResetDeadline == NULL

\* resetAll(): setCurrentPlayer(0)
ResetPlayerKeep == currentPlayer
ResetPlayer == 0

\* resetAll(): setStarted(false)
ResetStartedKeep == started
ResetStarted == FALSE

\* the component is mounted: no render has raised
Mounted == historyKind # "threw"

\* What a run of tick() leaves behind.  The updater of setGameHistory spreads
\* prev: on a prev that is no array it raises in the render, nothing of the
\* update is committed and React unmounts the component.
TickCommit(r, env) ==
    IF r.over /\ historyKind # "array"
    THEN /\ historyKind' = "threw"
         /\ tickEnv' = NoEnv
         /\ cue' = NULL
         /\ UNCHANGED << remainingMs, lastSecondRef, running, gameOver, gameHistory >>
    ELSE /\ remainingMs' = r.remainingMs
         /\ lastSecondRef' = r.lastSecondRef
         /\ running' = ~r.over
         /\ gameOver' = r.over
         /\ gameHistory' = r.gameHistory
         /\ tickEnv' = IF r.over THEN NoEnv ELSE env
         /\ historyKind' = historyKind
         /\ cue' = IF r.beep THEN r.lastSecondRef ELSE NULL

\* The effect of [running, gameOver, audioPrimed] re-runs while running: a new
\* tick closure over this render's state, setInterval(tick, 100), and tick() once.
EffectAndTick(cp, dl, lastSec, primed) ==
    LET env == Capture(cp, numPlayers, playerNames, primed)
    IN  TickCommit(TickStep(env, dl, lastSec, gameHistory, nowMs), env)

\* startGame(), from the start button (rendered only when !started)
StartGame ==
    /\ Mounted
    /\ ~started
    /\ games < MaxGames
    /\ games' = games + 1
    /\ EnsureAudioPrimed
    /\ started' = TRUE
    /\ currentPlayer' = 0
    /\ deadlineRef' = nowMs + timePerTurn * 1000
    /\ EffectAndTick(0, nowMs + timePerTurn * 1000, timePerTurn, audioPrimed)
    /\ UNCHANGED << numPlayers, timePerTurn, playerNames, audioPrimed,
                    resetHoldRef, nowMs >>
    /\ UNCHANGED << historyRaw, resetPress >>
    /\ ClockOnly

\* the interval callback tick() of the live closure
Tick ==
    /\ Mounted
    /\ tickEnv.live
    /\ deadlineRef # NULL
    /\ TickCommit(TickStep(tickEnv, deadlineRef, lastSecondRef, gameHistory, nowMs),
                  tickEnv)
    /\ UNCHANGED << numPlayers, timePerTurn, currentPlayer, started, deadlineRef,
                    playerNames, audioPrimed, audioPending, resetHoldRef, nowMs,
                    games >>
    /\ UNCHANGED << historyRaw, resetPress >>
    /\ ClockOnly

\* finishTurn(): the guard and the setCurrentPlayer updater
FinishTurn ==
    IF running /\ ~gameOver
    THEN /\ currentPlayer' = nextIdx(currentPlayer, numPlayers)
         /\ deadlineRef' = nowMs + timePerTurn * 1000
         /\ remainingMs' = timePerTurn * 1000
         /\ lastSecondRef' = timePerTurn
    ELSE UNCHANGED << currentPlayer, deadlineRef, remainingMs, lastSecondRef >>

\* the turn is passed on whatever the phase
FinishTurnRegardless ==
    /\ currentPlayer' = nextIdx(currentPlayer, numPlayers)
    /\ deadlineRef' = nowMs + timePerTurn * 1000
    /\ remainingMs' = timePerTurn * 1000
    /\ lastSecondRef' = timePerTurn

\* if (started && running && !gameOver) finishTurn()
FinishTurnIfRunning ==
    IF started /\ running /\ ~gameOver
    THEN FinishTurn
    ELSE UNCHANGED << currentPlayer, deadlineRef, remainingMs, lastSecondRef >>

\* handleRootClick on anything but the buttons and the modal
RootClick ==
    /\ Mounted
    /\ EnsureAudioPrimed
    /\ FinishTurnIfRunning
    /\ UNCHANGED << numPlayers, timePerTurn, running, gameOver, started,
                    gameHistory, playerNames, audioPrimed, resetHoldRef, tickEnv,
                    nowMs, games >>
    /\ UNCHANGED << historyRaw, historyKind, resetPress >>
    /\ cue' = NULL
    /\ ClockOnly

\* onResetDown (the reset button is rendered only when started)
ResetDown ==
    /\ Mounted
    /\ started
    /\ EnsureAudioPrimed
    /\ resetHoldRef' = [timer |-> TRUE, at |-> nowMs, held |-> FALSE]
    /\ UNCHANGED << numPlayers, timePerTurn, currentPlayer, running, gameOver,
                    started, gameHistory, deadlineRef, remainingMs, playerNames,
                    audioPrimed, lastSecondRef, tickEnv, nowMs, games >>
    /\ UNCHANGED << historyRaw, historyKind >>
    /\ cue' = NULL
    /\ resetPress' = [down |-> TRUE, at |-> nowMs]
    /\ ClockOnly

\* the setTimeout callback of onResetDown: held = true; resetAll()
ResetTimer ==
    /\ Mounted
    /\ resetHoldRef.timer
    /\ nowMs >= resetHoldRef.at + RESET_HOLD_MS
    /\ resetHoldRef' = [timer |-> FALSE, at |-> 0, held |-> TRUE]
    /\ running' = FALSE
    /\ gameOver' = FALSE
    /\ started' = ResetStarted
    /\ currentPlayer' = ResetPlayer
    /\ deadlineRef' = ResetDeadline
    /\ remainingMs' = 0
    /\ lastSecondRef' = NULL
    /\ cue' = NULL
    /\ tickEnv' = NoEnv
    /\ UNCHANGED << numPlayers, timePerTurn, gameHistory, playerNames,
                    audioPrimed, audioPending, nowMs, games >>
    /\ UNCHANGED << historyRaw, historyKind, resetPress >>
    /\ ClockOnly

\* onResetUp
ResetUp ==
    /\ Mounted
    /\ started
    /\ resetHoldRef' = [timer |-> FALSE, at |-> 0, held |-> FALSE]
    /\ IF ~resetHoldRef.held
       THEN FinishTurnIfRunning
       ELSE UNCHANGED << currentPlayer, deadlineRef, remainingMs, lastSecondRef >>
    /\ UNCHANGED << numPlayers, timePerTurn, running, gameOver, started,
                    gameHistory, playerNames, audioPrimed, audioPending, tickEnv,
                    nowMs, games >>
    /\ UNCHANGED << historyRaw, historyKind >>
    /\ resetPress' = NoPress
    /\ cue' = NULL
    /\ ClockOnly

\* ctx.resume().then(() => setAudioPrimed(true)); audioPrimed is an effect dependency
AudioResumed ==
    /\ Mounted
    /\ audioPending
    /\ audioPending' = FALSE
    /\ audioPrimed' = TRUE
    /\ IF ~audioPrimed /\ running /\ ~gameOver
       THEN EffectAndTick(currentPlayer, deadlineRef, lastSecondRef, TRUE)
       ELSE /\ UNCHANGED << remainingMs, lastSecondRef, running, gameOver,
                              gameHistory, tickEnv, historyKind >>
            /\ cue' = NULL
    /\ UNCHANGED << numPlayers, timePerTurn, currentPlayer, started, deadlineRef,
                    playerNames, resetHoldRef, nowMs, games >>
    /\ UNCHANGED << historyRaw, resetPress >>
    /\ ClockOnly

\* new AudioCtx() throws, or resume() rejects: swallowed
AudioFailed ==
    /\ Mounted
    /\ audioPending
    /\ audioPending' = FALSE
    /\ UNCHANGED << numPlayers, timePerTurn, currentPlayer, running, gameOver,
                    started, gameHistory, deadlineRef, remainingMs, playerNames,
                    audioPrimed, lastSecondRef, resetHoldRef, tickEnv, nowMs,
                    games >>
    /\ UNCHANGED << historyRaw, historyKind, resetPress >>
    /\ cue' = NULL
    /\ ClockOnly

\* the two <select> elements and the name inputs (rendered/enabled when !started)
SetNumPlayers(n) ==
    /\ Mounted
    /\ ~started
    /\ numPlayers' = n
    /\ UNCHANGED << timePerTurn, currentPlayer, running, gameOver, started,
                    gameHistory, deadlineRef, remainingMs, playerNames, audioPrimed,
                    audioPending, lastSecondRef, resetHoldRef, tickEnv, nowMs,
                    games >>
    /\ UNCHANGED << historyRaw, historyKind, resetPress >>
    /\ cue' = NULL
    /\ ClockOnly

SetTimePerTurn(s) ==
    /\ Mounted
    /\ ~started
    /\ timePerTurn' = s
    /\ UNCHANGED << numPlayers, currentPlayer, running, gameOver, started,
                    gameHistory, deadlineRef, remainingMs, playerNames, audioPrimed,
                    audioPending, lastSecondRef, resetHoldRef, tickEnv, nowMs,
                    games >>
    /\ UNCHANGED << historyRaw, historyKind, resetPress >>
    /\ cue' = NULL
    /\ ClockOnly

SetPlayerName(i) ==
    /\ Mounted
    /\ ~started
    /\ i <= numPlayers
    /\ playerNames' = [playerNames EXCEPT ![i] = EditedNames[i]]
    /\ UNCHANGED << numPlayers, timePerTurn, currentPlayer, running, gameOver,
                    started, gameHistory, deadlineRef, remainingMs, audioPrimed,
                    audioPending, lastSecondRef, resetHoldRef, tickEnv, nowMs,
                    games >>
    /\ UNCHANGED << historyRaw, historyKind, resetPress >>
    /\ cue' = NULL
    /\ ClockOnly

\* the modal's clear button, confirmed: setGameHistory([])
ClearHistory ==
    /\ Mounted
    /\ historyKind = "array"
    /\ gameHistory # << >>
    /\ gameHistory' = << >>
    /\ UNCHANGED << numPlayers, timePerTurn, currentPlayer, running, gameOver,
                    started, deadlineRef, remainingMs, playerNames, audioPrimed,
                    audioPending, lastSecondRef, resetHoldRef, tickEnv, nowMs,
                    games >>
    /\ UNCHANGED << historyRaw, historyKind, resetPress >>
    /\ cue' = NULL
    /\ ClockOnly

\* performance.now() moves on; nothing reads the clock before a game is started,
\* so model time stands still until then
Advance ==
    /\ Mounted
    /\ started \/ resetHoldRef.timer
    /\ nowMs + StepMs <= MaxNowMs
    /\ nowMs' = nowMs + StepMs
    /\ UNCHANGED << numPlayers, timePerTurn, currentPlayer, running, gameOver,
                    started, gameHistory, deadlineRef, remainingMs, playerNames,
                    audioPrimed, audioPending, lastSecondRef, resetHoldRef, tickEnv,
                    games >>
    /\ UNCHANGED << historyRaw, historyKind, resetPress >>
    /\ cue' = NULL
    /\ ClockOnly

\* the pointer is let go off the reset button (or the press is cancelled):
\* the button has no handler but onPointerUp, nothing runs
ResetUpOutside ==
    /\ Mounted
    /\ resetPress.down
    /\ resetPress' = NoPress
    /\ UNCHANGED << numPlayers, timePerTurn, currentPlayer, running, gameOver,
                    started, gameHistory, deadlineRef, remainingMs, playerNames,
                    audioPrimed, audioPending, lastSecondRef, resetHoldRef, tickEnv,
                    nowMs, games, historyRaw, historyKind >>
    /\ cue' = NULL
    /\ ClockOnly

\* time moves on by one period of the poll; a timeout that is due runs first
PollPasses ==
    /\ Mounted
    /\ started \/ resetHoldRef.timer
    /\ ~(resetHoldRef.timer /\ nowMs >= resetHoldRef.at + RESET_HOLD_MS)
    /\ nowMs' = nowMs + PollMs
    /\ UNCHANGED << numPlayers, timePerTurn, currentPlayer, running, gameOver,
                    started, gameHistory, deadlineRef, remainingMs, playerNames,
                    audioPrimed, audioPending, lastSecondRef, resetHoldRef, tickEnv,
                    games, historyRaw, historyKind, resetPress >>
    /\ cue' = NULL
    /\ ClockOnly

AdvancePoll ==
    /\ nowMs + PollMs <= MaxPolls * PollMs
    /\ PollPasses

\* the same, for as long as a turn of five seconds takes
AdvancePollOfTurn ==
    /\ nowMs + PollMs <= MaxTurnPolls * PollMs
    /\ PollPasses

NextClock ==
    \/ StartGame
    \/ Tick
    \/ RootClick
    \/ ResetDown
    \/ ResetTimer
    \/ ResetUp
    \/ ResetUpOutside
    \/ AudioResumed
    \/ AudioFailed
    \/ \E n \in PlayerOptions : SetNumPlayers(n)
    \/ \E s \in TimeOptions : SetTimePerTurn(s)
    \/ \E i \in EditedInputs : SetPlayerName(i)
    \/ ClearHistory
    \/ Advance

InitSpecClock == InitClock /\ RankIdle /\ TapIdle
SpecClock == InitSpecClock /\ [][NextClock]_vars

\* ------------------------------------------------------- ranking store
\* saveName, local branch, for the entry { name, score: count, date }
RkSubmit(d, n, sc, t) ==
    /\ BagCount(rkSubmitted) < MaxSubmits
    /\ LET e == Entry(n, sc, toISOString(t))
           top5 == LocalSubmit(ranksByDuration[d], e)
       IN  /\ ranksByDuration' = [ranksByDuration EXCEPT ![d] = top5]
           /\ ls' = saveRank(ls, d, top5)
           /\ rkSubmitted' = [rkSubmitted EXCEPT ![e] = @ + 1]
           /\ rkOut' = [NoOut EXCEPT !.op = "submit", !.d = d, !.arg = << e >>,
                                     !.value = top5]
    /\ rkCleared' = FALSE
    /\ UNCHANGED << rkFocus, rkFromEmpty >>
    /\ RankOnly

\* clearRank, local branch: clearRankStorage(duration); fresh = loadRank(duration)
RkClear(d) ==
    /\ LET before == loadRank(ls, d)
           store == clearRankStorage(ls, d)
           fresh == loadRank(store, d)
       IN  /\ ls' = store
           /\ ranksByDuration' = [ranksByDuration EXCEPT ![d] = fresh.value]
           /\ rkOut' = [NoOut EXCEPT !.op = "clear", !.d = d, !.arg = before.value,
                                     !.threw = fresh.threw, !.value = fresh.value]
    /\ rkSubmitted' = EmptyBag
    /\ rkFromEmpty' = TRUE
    /\ rkCleared' = TRUE
    /\ UNCHANGED rkFocus
    /\ RankOnly

\* saveRank(d, b) and the loadRank(d) that follows it, as in runSelfTests
RkSave(d, b) ==
    /\ LET store == saveRank(ls, d, b)
           after == loadRank(store, d)
       IN  /\ ls' = store
           /\ rkOut' = [NoOut EXCEPT !.op = "save", !.d = d, !.arg = b,
                                     !.threw = after.threw, !.value = after.value]
    /\ rkCleared' = FALSE
    /\ UNCHANGED << ranksByDuration, rkFocus, rkSubmitted, rkFromEmpty >>
    /\ RankOnly

\* the key is overwritten with text that is no JSON array, or removed, and
\* loadRank(d) follows, as in runSelfTests
RkCorrupt(d, raw) ==
    /\ LET store == [ls EXCEPT ![LS_KEY(d)] = raw]
           after == loadRank(store, d)
       IN  /\ ls' = store
           /\ rkOut' = [NoOut EXCEPT !.op = "corrupt", !.d = d,
                                     !.threw = after.threw, !.value = after.value]
    /\ rkCleared' = FALSE
    /\ UNCHANGED << ranksByDuration, rkFocus, rkSubmitted, rkFromEmpty >>
    /\ RankOnly

\* loadRank(d), a read
RkLoad(d) ==
    /\ LET got == loadRank(ls, d)
       IN  rkOut' = [NoOut EXCEPT !.op = "load", !.d = d, !.threw = got.threw,
                                  !.value = got.value]
    /\ UNCHANGED << ls, ranksByDuration, rkFocus, rkSubmitted, rkFromEmpty, rkCleared >>
    /\ RankOnly

\* the page is loaded again: the useState initializer reads every bucket
RkReload ==
    /\ ranksByDuration' = InitialRanks(ls)
    /\ rkOut' = [NoOut EXCEPT !.op = "reload", !.d = rkFocus,
                              !.value = loadRank(ls, rkFocus).value]
    /\ IF loadRank(ls, rkFocus).value = << >>
       THEN rkSubmitted' = EmptyBag /\ rkFromEmpty' = TRUE
       ELSE IF loadRank(ls, rkFocus).value = ranksByDuration[rkFocus]
       THEN UNCHANGED << rkSubmitted, rkFromEmpty >>
       ELSE rkSubmitted' = EmptyBag /\ rkFromEmpty' = FALSE
    /\ UNCHANGED << ls, rkFocus, rkCleared >>
    /\ RankOnly

\* qualifies(bucket, score)
RkQualifies(d, sc) ==
    /\ rkOut' = [NoOut EXCEPT !.op = "qualifies", !.d = d, !.score = sc,
                              !.arg = ranksByDuration[d],
                              !.ok = qualifies(ranksByDuration[d], sc)]
    /\ UNCHANGED << ls, ranksByDuration, rkFocus, rkSubmitted, rkFromEmpty, rkCleared >>
    /\ RankOnly

NextRank ==
    \/ \E n \in RankNames, sc \in 0..MaxScore, t \in DateClock :
           RkSubmit(rkFocus, n, sc, t)
    \/ \E sc \in ProbeScores : RkQualifies(rkFocus, sc)
    \/ RkClear(rkFocus)
    \/ RkReload

NextStore ==
    \/ \E b \in SaveInputs : RkSave(rkFocus, b)
    \/ \E k \in CorruptKinds : RkCorrupt(rkFocus, Text(k))
    \/ RkCorrupt(rkFocus, Missing)
    \/ RkLoad(rkFocus)
    \/ RkClear(rkFocus)
    \/ RkReload

InitSpecRank == InitClock /\ InitRank /\ TapIdle
SpecRank == InitSpecRank /\ [][NextRank]_vars
SpecStore == InitSpecRank /\ [][NextStore]_vars

\* ----------------------------------------------------------- tap session
\* the remote scoreboard keeps its entries in rank order, and keeps more of
\* them than a bucket takes
ServerKeep == 6
ServerInsert(list, e) == Slice(Sort(Append(list, e)), ServerKeep)
ServerGet(list) == list

\* remoteLoadRank: the response cut to five, or nothing after a failure
remoteLoadRankNoSlice(ok, data) == IF ok THEN data ELSE << >>
remoteLoadRank(ok, data) == IF ok THEN Slice(data, TOP_N) ELSE << >>

\* the rankings effect: a load is sent when view or duration changed and the
\* rankings are shown
EffectLoad(v, d) ==
    IF useRemote /\ v = "rankings" /\ (v # view \/ d # duration)
    THEN gets \cup {d} ELSE gets

\* what start() closes over: the render in which the button was clicked
StartEnv ==
    [duration |-> duration, count |-> count, bucket |-> ranksByDuration[duration]]

\* stopTimers(), for the interval a ref holds: clearInterval and null
stopTimersKeeps(t) == t
stopTimers(t) == NoTimer

TimerShort(k, env) ==
    [live |-> TRUE, n |-> k - 1, duration |-> env.duration, count |-> env.count,
     bucket |-> env.bucket]
Timer(k, env) ==
    [live |-> TRUE, n |-> k, duration |-> env.duration, count |-> env.count,
     bucket |-> env.bucket]

\* the 開始 button: start() is called and awaits sfx.resume()
ClickStart ==
    /\ view = "game"
    /\ phase \in {"idle", "finished"}
    /\ ~showNameDialog
    /\ pendingStarts' = Append(pendingStarts, StartEnv)
    /\ tevt' = NoEvt
    /\ UNCHANGED << useRemote, duration, phase, view, remaining, count,
                    showNameDialog, lastPointerIdRef, pressed, readyTimer,
                    activeTimer, holdTimer, server, gets, saveFlow, posts, svars >>
    /\ UNCHANGED << session, holdDown >>
    /\ TapOnly

StartClick ==
    /\ Len(pendingStarts) < MaxPendingStarts
    /\ ClickStart

\* the button, which a second click reaches before the first start() has resumed
StartClickTwice ==
    /\ Len(pendingStarts) < MaxPendingStarts + 1
    /\ ClickStart

\* start(): setPhase("ready")
StartPhaseActive == "active"
StartPhase == "ready"

\* start() after await sfx.resume(): the timers are stopped and the
\* countdown begins; the sync effect then runs if phase changed
StartResumed ==
    /\ pendingStarts # << >>
    /\ pendingStarts' = Tail(pendingStarts)
    /\ count' = 0
    /\ view' = "game"
    /\ phase' = StartPhase
    /\ remaining' = IF phase = "ready" THEN READY_TICKS ELSE duration
    /\ readyTimer' = Timer(READY_TICKS, Head(pendingStarts))
    /\ activeTimer' = stopTimers(activeTimer)
    /\ tevt' = NoEvt
    /\ UNCHANGED << useRemote, duration, showNameDialog, lastPointerIdRef,
                    pressed, holdTimer, server, gets, saveFlow, posts, svars >>
    /\ session' = [live |-> TRUE, ticks |-> 0, taps |-> 0,
                    D |-> Head(pendingStarts).duration, cues |-> << >>]
    /\ UNCHANGED holdDown
    /\ TapOnly

\* sfx.resume() rejected: start() ends there
StartRejected ==
    /\ pendingStarts # << >>
    /\ pendingStarts' = Tail(pendingStarts)
    /\ tevt' = NoEvt
    /\ UNCHANGED << useRemote, duration, phase, view, remaining, count,
                    showNameDialog, lastPointerIdRef, pressed, readyTimer,
                    activeTimer, holdTimer, server, gets, saveFlow, posts, svars >>
    /\ UNCHANGED << session, holdDown >>
    /\ TapOnly

\* let left = duration; activeTimerRef.current = window.setInterval(..., 1000)
ActiveIntervalMissing(env) == NoTimer
ActiveInterval(env) == Timer(env.duration, env)

\* the interval of the countdown
ReadyTick ==
    /\ readyTimer.live
    /\ LET pre == readyTimer.n - 1 IN
       IF pre > 0
       THEN /\ remaining' = pre
            /\ readyTimer' = [readyTimer EXCEPT !.n = pre]
            /\ UNCHANGED << phase, activeTimer >>
       ELSE /\ readyTimer' = NoTimer
            /\ phase' = "active"
            /\ remaining' = readyTimer.duration
            /\ activeTimer' = ActiveInterval(readyTimer)
    /\ tevt' = NoEvt
    /\ UNCHANGED << useRemote, duration, view, count, showNameDialog,
                    lastPointerIdRef, pressed, holdTimer, pendingStarts,
                    server, gets, saveFlow, posts, svars >>
    /\ session' = [session EXCEPT !.ticks = @ + 1]
    /\ UNCHANGED holdDown
    /\ TapOnly

\* the decision at expiry, from what start() closed over
QualifiedAtExpiry(t) == qualifies(t.bucket, t.count)

\* the active interval's cue: if (left <= 3 && left > 0) sfx.beep(880, 140)
CountdownCue(left) == left <= CUE_FROM_SEC /\ left > 0

\* the interval of the measurement
ActiveTick ==
    /\ activeTimer.live
    /\ LET left == activeTimer.n - 1
           qualified == QualifiedAtExpiry(activeTimer)
       IN
       /\ remaining' = left
       /\ IF left <= 0
          THEN /\ readyTimer' = stopTimers(readyTimer)
               /\ activeTimer' = stopTimers(activeTimer)
               /\ phase' = "finished"
               /\ showNameDialog' = (showNameDialog \/ qualified)
               /\ view' = IF qualified THEN view ELSE "rankings"
               /\ gets' = EffectLoad(view', duration)
               /\ tevt' = [NoEvt EXCEPT !.op = "expire", !.id = activeTimer.duration,
                                               !.qualified = qualified]
          ELSE /\ activeTimer' = [activeTimer EXCEPT !.n = left]
               /\ tevt' = NoEvt
               /\ UNCHANGED << readyTimer, phase, showNameDialog, view, gets >>
    /\ UNCHANGED << useRemote, duration, count, lastPointerIdRef, pressed,
                    holdTimer, pendingStarts, server, saveFlow, posts, svars >>
    /\ session' = [session EXCEPT !.ticks = @ + 1,
                                  !.cues = IF CountdownCue(activeTimer.n - 1)
                                           THEN Append(@, activeTimer.n - 1)
                                           ELSE @]
    /\ UNCHANGED holdDown
    /\ TapOnly

\* the one slot that remembers a pointer that is down
DownIgnoredAnyHeld(id) == pressed # {}
DownIgnored(id) == lastPointerIdRef = id

\* onPointerDown; the name dialog keeps the event from the root
PointerDown(id) ==
    /\ ~showNameDialog
    /\ IF phase # "active" \/ DownIgnored(id)
       THEN UNCHANGED << lastPointerIdRef, count, pressed, session >>
       ELSE /\ count < MaxTaps
            /\ lastPointerIdRef' = id
            /\ count' = count + 1
            /\ pressed' = pressed \cup {id}
            /\ session' = [session EXCEPT !.taps = @ + 1]
    /\ tevt' = NoEvt
    /\ UNCHANGED << useRemote, duration, phase, view, remaining, showNameDialog,
                    readyTimer, activeTimer, holdTimer, pendingStarts, server,
                    gets, saveFlow, posts, svars >>
    /\ UNCHANGED holdDown
    /\ TapOnly

\* onPointerUp
PointerUp(id) ==
    /\ lastPointerIdRef' = IF lastPointerIdRef = id THEN NULL ELSE lastPointerIdRef
    /\ pressed' = pressed \ {id}
    /\ tevt' = NoEvt
    /\ UNCHANGED << useRemote, duration, phase, view, remaining, count,
                    showNameDialog, readyTimer, activeTimer, holdTimer,
                    pendingStarts, server, gets, saveFlow, posts, svars >>
    /\ UNCHANGED << session, holdDown >>
    /\ TapOnly

\* the reset button is held down: the timeout closes over reset()
beginResetHold ==
    /\ view = "game"
    /\ phase \in {"ready", "active"}
    /\ ~showNameDialog
    /\ holdTimer' = duration
    /\ tevt' = NoEvt
    /\ UNCHANGED << useRemote, duration, phase, view, remaining, count,
                    showNameDialog, lastPointerIdRef, pressed, readyTimer,
                    activeTimer, pendingStarts, server, gets, saveFlow, posts,
                    svars >>
    /\ UNCHANGED session
    /\ holdDown' = TRUE
    /\ TapOnly

\* the button is still there and is let go
cancelResetHold ==
    /\ view = "game"
    /\ phase \in {"ready", "active"}
    /\ holdTimer # NULL
    /\ holdTimer' = NULL
    /\ tevt' = NoEvt
    /\ UNCHANGED << useRemote, duration, phase, view, remaining, count,
                    showNameDialog, lastPointerIdRef, pressed, readyTimer,
                    activeTimer, pendingStarts, server, gets, saveFlow, posts,
                    svars >>
    /\ UNCHANGED session
    /\ holdDown' = FALSE
    /\ TapOnly

\* the reset button is rendered: the game view, in ready or active
ResetButtonShown == view = "game" /\ phase \in {"ready", "active"}

\* the press ends where no handler of the reset button hears it: the button's
\* place is taken by the start button or by the rankings' button
HoldReleasedUnheard ==
    /\ holdDown
    /\ ~ResetButtonShown
    /\ holdDown' = FALSE
    /\ tevt' = NoEvt
    /\ UNCHANGED << useRemote, duration, phase, view, remaining, count,
                    showNameDialog, lastPointerIdRef, pressed, readyTimer,
                    activeTimer, holdTimer, pendingStarts, server, gets, saveFlow,
                    posts, svars, session >>
    /\ TapOnly

\* the timeout of the hold: reset(), then the sync effect if phase changed
reset ==
    /\ holdTimer # NULL
    /\ holdTimer' = NULL
    /\ readyTimer' = stopTimers(readyTimer)
    /\ activeTimer' = stopTimers(activeTimer)
    /\ phase' = "idle"
    /\ count' = 0
    /\ remaining' = IF phase # "idle" THEN duration ELSE holdTimer
    /\ view' = "game"
    /\ tevt' = NoEvt
    /\ UNCHANGED << useRemote, duration, showNameDialog, lastPointerIdRef,
                    pressed, pendingStarts, server, gets, saveFlow, posts, svars >>
    /\ session' = NoSession
    /\ UNCHANGED holdDown
    /\ TapOnly

\* the select and the duration buttons
setDuration(d) ==
    /\ d # duration
    /\ ~showNameDialog
    /\ view = "rankings" \/ phase \notin {"ready", "active"}
    /\ duration' = d
    /\ remaining' = IF phase \in {"idle", "ready"} THEN d ELSE remaining
    /\ gets' = EffectLoad(view, d)
    /\ tevt' = NoEvt
    /\ UNCHANGED << useRemote, phase, view, count, showNameDialog,
                    lastPointerIdRef, pressed, readyTimer, activeTimer,
                    holdTimer, pendingStarts, server, saveFlow, posts, svars >>
    /\ UNCHANGED << session, holdDown >>
    /\ TapOnly

\* the buttons that open the rankings
ShowRankings ==
    /\ view = "game"
    /\ phase # "active"
    /\ ~showNameDialog
    /\ view' = "rankings"
    /\ gets' = EffectLoad("rankings", duration)
    /\ tevt' = NoEvt
    /\ UNCHANGED << useRemote, duration, phase, remaining, count, showNameDialog,
                    lastPointerIdRef, pressed, readyTimer, activeTimer,
                    holdTimer, pendingStarts, server, saveFlow, posts, svars >>
    /\ UNCHANGED << session, holdDown >>
    /\ TapOnly

\* the buttons that lead back
BackToGame ==
    /\ view = "rankings"
    /\ ~showNameDialog
    /\ view' = "game"
    /\ tevt' = NoEvt
    /\ UNCHANGED << useRemote, duration, phase, remaining, count, showNameDialog,
                    lastPointerIdRef, pressed, readyTimer, activeTimer,
                    holdTimer, pendingStarts, server, gets, saveFlow, posts,
                    svars >>
    /\ UNCHANGED << session, holdDown >>
    /\ TapOnly

\* the load of the rankings effect comes back
LoadDone(d, ok) ==
    /\ d \in gets
    /\ gets' = gets \ {d}
    /\ ranksByDuration' =
           [ranksByDuration EXCEPT ![d] = remoteLoadRank(ok, ServerGet(server[d]))]
    /\ tevt' = [NoEvt EXCEPT !.op = "loaded", !.id = d, !.counted = ok]
    /\ UNCHANGED << useRemote, duration, phase, view, remaining, count,
                    showNameDialog, lastPointerIdRef, pressed, readyTimer,
                    activeTimer, holdTimer, pendingStarts, server, saveFlow,
                    posts, ls >>
    /\ UNCHANGED << session, holdDown >>
    /\ TapOnly

\* スキップ
SkipName ==
    /\ showNameDialog
    /\ showNameDialog' = FALSE
    /\ view' = "rankings"
    /\ gets' = EffectLoad("rankings", duration)
    /\ tevt' = NoEvt
    /\ UNCHANGED << useRemote, duration, phase, remaining, count,
                    lastPointerIdRef, pressed, readyTimer, activeTimer,
                    holdTimer, pendingStarts, server, saveFlow, posts, svars >>
    /\ UNCHANGED << session, holdDown >>
    /\ TapOnly

\* the saveName calls that can be under way at once
FlowSlots == 1..(MaxPosts + 1)

\* 登録 (or Enter) with the shared rankings: saveName() is called and posts
\* the score of the render it was clicked in; nothing keeps a second call
\* from starting while an earlier one is under way
Register(name, t) ==
    /\ useRemote
    /\ showNameDialog
    /\ posts' = posts + 1
    /\ saveFlow' = Append(saveFlow,
                          [pc |-> "posting", duration |-> duration, name |-> name,
                           score |-> count, date |-> toISOString(t),
                           acked |-> FALSE, waited |-> FALSE])
    /\ tevt' = NoEvt
    /\ UNCHANGED << useRemote, duration, phase, view, remaining, count,
                    showNameDialog, lastPointerIdRef, pressed, readyTimer,
                    activeTimer, holdTimer, pendingStarts, server, gets, svars >>
    /\ UNCHANGED << session, holdDown >>
    /\ TapOnly

saveNameRemote(name, t) ==
    /\ posts < MaxPosts
    /\ Register(name, t)

\* 登録 once more than MaxPosts: a retry after a failure, or a second click
saveNameAgain(name, t) ==
    /\ posts < MaxPosts + 1
    /\ Register(name, t)

\* seq without its i-th element
RemoveAt(seq, i) == SubSeq(seq, 1, i - 1) \o SubSeq(seq, i + 1, Len(seq))

\* what a saveName call does when remotePostScore returned false
PostFailedKeepsOn(i) == [saveFlow EXCEPT ![i].pc = "grace"]
PostFailed(i) == RemoveAt(saveFlow, i)

\* where a saveName call stands after remotePostScore returned true: at the
\* await of the 500 ms
AfterPostNoGrace == "loading"
AfterPost == "grace"

\* the post of the i-th call comes back: on failure an alert, and the call ends
PostDone(i, ok) ==
    /\ i \in 1..Len(saveFlow)
    /\ saveFlow[i].pc = "posting"
    /\ IF ok
       THEN /\ server' = [server EXCEPT ![saveFlow[i].duration] =
                   ServerInsert(@, Entry(saveFlow[i].name, saveFlow[i].score,
                                         saveFlow[i].date))]
            /\ saveFlow' = [saveFlow EXCEPT ![i].pc = AfterPost, ![i].acked = TRUE]
            /\ tevt' = NoEvt
       ELSE /\ saveFlow' = PostFailed(i)
            /\ tevt' = [NoEvt EXCEPT !.op = "alert"]
            /\ UNCHANGED server
    /\ UNCHANGED << useRemote, duration, phase, view, remaining, count,
                    showNameDialog, lastPointerIdRef, pressed, readyTimer,
                    activeTimer, holdTimer, pendingStarts, gets, posts, svars >>
    /\ UNCHANGED << session, holdDown >>
    /\ TapOnly

\* the 500 ms of the i-th call are over and the bucket is read back
GraceDone(i) ==
    /\ i \in 1..Len(saveFlow)
    /\ saveFlow[i].pc = "grace"
    /\ saveFlow' = [saveFlow EXCEPT ![i].pc = "loading", ![i].waited = TRUE]
    /\ tevt' = NoEvt
    /\ UNCHANGED << useRemote, duration, phase, view, remaining, count,
                    showNameDialog, lastPointerIdRef, pressed, readyTimer,
                    activeTimer, holdTimer, pendingStarts, server, gets, posts,
                    svars >>
    /\ UNCHANGED << session, holdDown >>
    /\ TapOnly

\* the read-back of the i-th call arrives: the bucket is replaced and the
\* rankings are shown
SaveLoaded(i, ok) ==
    /\ i \in 1..Len(saveFlow)
    /\ saveFlow[i].pc = "loading"
    /\ saveFlow' = RemoveAt(saveFlow, i)
    /\ ranksByDuration' =
           [ranksByDuration EXCEPT ![saveFlow[i].duration] =
               remoteLoadRank(ok, ServerGet(server[saveFlow[i].duration]))]
    /\ showNameDialog' = FALSE
    /\ view' = "rankings"
    /\ gets' = EffectLoad("rankings", duration)
    /\ tevt' = [NoEvt EXCEPT !.op = "loaded", !.id = saveFlow[i].duration,
                             !.counted = ok]
    /\ UNCHANGED << useRemote, duration, phase, remaining, count,
                    lastPointerIdRef, pressed, readyTimer, activeTimer,
                    holdTimer, pendingStarts, server, posts, ls >>
    /\ UNCHANGED << session, holdDown >>
    /\ TapOnly

\* 登録 without the shared rankings: the bucket is rebuilt and stored
saveNameLocal(name, t) ==
    /\ ~useRemote
    /\ showNameDialog
    /\ posts < MaxPosts
    /\ posts' = posts + 1
    /\ LET top5 == LocalSubmit(ranksByDuration[duration],
                               Entry(name, count, toISOString(t)))
       IN /\ ranksByDuration' = [ranksByDuration EXCEPT ![duration] = top5]
          /\ ls' = saveRank(ls, duration, top5)
    /\ showNameDialog' = FALSE
    /\ view' = "rankings"
    /\ tevt' = NoEvt
    /\ UNCHANGED << useRemote, duration, phase, remaining, count,
                    lastPointerIdRef, pressed, readyTimer, activeTimer,
                    holdTimer, pendingStarts, server, gets, saveFlow >>
    /\ UNCHANGED << session, holdDown >>
    /\ TapOnly

\* リセット on the rankings page, confirmed: only the local bucket can be cleared
clearRank ==
    /\ view = "rankings"
    /\ ~showNameDialog
    /\ IF useRemote
       THEN UNCHANGED svars
       ELSE /\ ls' = clearRankStorage(ls, duration)
            /\ ranksByDuration' =
                   [ranksByDuration EXCEPT ![duration] = loadRank(ls', duration).value]
    /\ tevt' = NoEvt
    /\ UNCHANGED << useRemote, duration, phase, view, remaining, count,
                    showNameDialog, lastPointerIdRef, pressed, readyTimer,
                    activeTimer, holdTimer, pendingStarts, server, gets,
                    saveFlow, posts >>
    /\ UNCHANGED << session, holdDown >>
    /\ TapOnly

\* the session: what the player and the timers do, and the loads coming back
NextTap ==
    \/ StartClick
    \/ StartResumed
    \/ StartRejected
    \/ ReadyTick
    \/ ActiveTick
    \/ \E id \in PointerIds : PointerDown(id)
    \/ \E id \in PointerIds : PointerUp(id)
    \/ beginResetHold
    \/ cancelResetHold
    \/ reset
    \/ \E d \in TapDurations : setDuration(d)
    \/ ShowRankings
    \/ BackToGame
    \/ SkipName
    \/ \E d \in DurationSet, ok \in BOOLEAN : LoadDone(d, ok)

\* the scoreboard: sessions of one pointer, and everything that writes a bucket
NextBoard ==
    \/ StartClick
    \/ StartResumed
    \/ ReadyTick
    \/ ActiveTick
    \/ \E id \in BoardPointers : PointerDown(id)
    \/ \E d \in BoardDurations : setDuration(d)
    \/ ShowRankings
    \/ BackToGame
    \/ SkipName
    \/ \E d \in DurationSet, ok \in BOOLEAN : LoadDone(d, ok)
    \/ \E n \in RankNames, t \in DateClock : saveNameRemote(n, t)
    \/ \E i \in FlowSlots, ok \in BOOLEAN : PostDone(i, ok)
    \/ \E i \in FlowSlots : GraceDone(i)
    \/ \E i \in FlowSlots, ok \in BOOLEAN : SaveLoaded(i, ok)
    \/ \E n \in RankNames, t \in DateClock : saveNameLocal(n, t)
    \/ clearRank

InitSpecTap == InitClock /\ InitTap
SpecTap == InitSpecTap /\ [][NextTap]_vars
SpecBoard == InitSpecTap /\ [][NextBoard]_vars

\* ------------------------------------------------ claims on the turn timer

\* C1 (as claimed): the entry an expiry prepends names as loser the player at
\* currentPlayer at that moment, and as players the first numPlayers names.
C1_LoserIsCurrentPlayer ==
    [][(gameOver' /\ ~gameOver) =>
         /\ gameHistory'[1].loser = playerNames[currentPlayer + 1]
         /\ gameHistory'[1].players = Slice(playerNames, numPlayers)]_vars

\* C3 (as claimed): the deadline is non-null exactly while the phase is running.
C3_DeadlineIffRunning ==
    (deadlineRef # NULL) <=> (clockPhase = "running")

\* C3 (amended): the deadline is null exactly in idle; start and advanceTurn set
\* it, expiry keeps it, so it is non-null in running and in over.
C3_DeadlineIffNotIdle ==
    /\ (deadlineRef # NULL) <=> (clockPhase # "idle")
    /\ (clockPhase = "running") <=> running
    /\ (clockPhase = "over") => ~running

\* C3 witness: an expired game after an advanceTurn, its deadline still held
C3_Witness ==
    /\ clockPhase = "over"
    /\ deadlineRef # NULL
    /\ nowMs >= deadlineRef
    /\ currentPlayer = 1

\* ---------------------------------------------- claims on the ranking store
\* the order of a bucket: a before b when a's score is higher, or equal with an
\* earlier date string
Precedes(a, b) ==
    \/ a.score > b.score
    \/ a.score = b.score /\ localeCompare(a.date, b.date) < 0
SameRank(a, b) == a.score = b.score /\ a.date = b.date
IsSorted(b) ==
    \A i, j \in 1..Len(b) : i < j => (Precedes(b[i], b[j]) \/ SameRank(b[i], b[j]))
MinScore(b) == CHOOSE m \in { b[i].score : i \in 1..Len(b) } :
                   \A i \in 1..Len(b) : m <= b[i].score
Occurs(b, e) == Cardinality({ i \in 1..Len(b) : b[i] = e })

\* C5: qualifies is true of every bucket of fewer than 5 entries and any score;
\* of a full bucket with least score M it is true exactly of the scores above M.
C5_Qualifies ==
    (rkOut.op = "qualifies" /\ IsSorted(rkOut.arg)) =>
        /\ rkOut.arg = ranksByDuration[rkOut.d]
        /\ Len(rkOut.arg) < TOP_N => rkOut.ok
        /\ Len(rkOut.arg) = TOP_N =>
              (rkOut.ok <=> rkOut.score > MinScore(rkOut.arg))

\* C5 witness: a full bucket of unequal scores is asked about its least score,
\* which does not qualify
C5_Witness ==
    /\ rkOut.op = "qualifies"
    /\ Len(rkOut.arg) = TOP_N
    /\ IsSorted(rkOut.arg)
    /\ rkOut.arg[1].score > MinScore(rkOut.arg)
    /\ rkOut.score = MinScore(rkOut.arg)
    /\ ~rkOut.ok

\* C6: a bucket built from empty by submits has at most 5 entries, is sorted by
\* descending score and ascending date string, and holds the 5 best submitted.
C6_SubmitKeepsTop5 ==
    rkFromEmpty =>
        LET b == ranksByDuration[rkFocus]
        IN  /\ Len(b) <= TOP_N
            /\ Len(b) = Min(TOP_N, BagCount(rkSubmitted))
            /\ IsSorted(b)
            /\ \A e \in EntryUniverse : Occurs(b, e) <= rkSubmitted[e]
            /\ \A e \in EntryUniverse :
                   Occurs(b, e) < rkSubmitted[e] =>
                       \A i \in 1..Len(b) : ~Precedes(e, b[i])
            /\ loadRank(ls, rkFocus).value = b

\* C6 witness: six submits, the last one of the best score and the earlier
\* date; it leads the bucket, a tie is ordered by date, an entry was dropped
C6_Witness ==
    /\ rkFromEmpty
    /\ rkOut.op = "submit"
    /\ BagCount(rkSubmitted) = MaxSubmits
    /\ Len(ranksByDuration[rkFocus]) = TOP_N
    /\ rkOut.arg[1] = ranksByDuration[rkFocus][1]
    /\ ranksByDuration[rkFocus][1].score = ranksByDuration[rkFocus][2].score
    /\ ranksByDuration[rkFocus][1].date # ranksByDuration[rkFocus][2].date
    /\ ranksByDuration[rkFocus][1].score > ranksByDuration[rkFocus][TOP_N].score

\* C8: loadRank(d) right after saveRank(d, b) returns the first 5 entries of b in
\* their order, b itself when it has at most 5; other keys are left alone.
C8_SaveLoadRoundTrip ==
    rkOut.op = "save" =>
        /\ ~rkOut.threw
        /\ rkOut.value = Slice(rkOut.arg, TOP_N)
        /\ Len(rkOut.arg) <= TOP_N => rkOut.value = rkOut.arg
        /\ loadRank(ls, rkOut.d).value = rkOut.value
        /\ loadRank(ls, OtherFocus(rkOut.d)).value = SeedBucket

\* C8 witness: a list of more than 5 entries, not in ranking order, was saved
C8_Witness ==
    /\ rkOut.op = "save"
    /\ Len(rkOut.arg) > TOP_N
    /\ Len(rkOut.value) = TOP_N
    /\ ~IsSorted(rkOut.value)

\* C9: loadRank(d) after clearRankStorage(d) returns the empty bucket, whatever
\* was stored before, and so does every read until the key is written again.
C9_ClearThenLoadEmpty ==
    rkCleared =>
        /\ loadRank(ls, rkFocus) = [threw |-> FALSE, value |-> << >>]
        /\ rkOut.op \in {"clear", "load"} => (rkOut.value = << >> /\ ~rkOut.threw)
        /\ rkOut.op = "clear" => ranksByDuration[rkOut.d] = << >>

\* C9 witness: a key that held 5 entries was cleared
C9_Witness ==
    /\ rkOut.op = "clear"
    /\ Len(rkOut.arg) = TOP_N
    /\ rkOut.value = << >>
    /\ rkCleared

\* C10: loadRank never raises, and returns the empty bucket when the key is
\* missing, holds text that is no JSON, or holds JSON that is no array.
C10_LoadCorruptIsEmpty ==
    /\ \A d \in DurationSet : ~loadRank(ls, d).threw
    /\ \A d \in DurationSet :
           ls[LS_KEY(d)].kind \in (CorruptKinds \cup {"missing"}) =>
               loadRank(ls, d).value = << >>
    /\ rkOut.op \in {"corrupt", "load", "reload"} =>
           /\ ~rkOut.threw
           /\ ls[LS_KEY(rkOut.d)].kind \in (CorruptKinds \cup {"missing"}) =>
                  rkOut.value = << >>

\* C10 witness: a key that held entries holds text that is no JSON, and was read
C10_Witness ==
    /\ rkOut.op = "corrupt"
    /\ ls[LS_KEY(rkOut.d)].kind = "garbage"
    /\ rkOut.value = << >>
    /\ ranksByDuration[rkOut.d] # << >>

\* ------------------------------------------------ claims on the tap session
\* C2: when an active session expires, the decision taken (the name dialog if
\* qualified, the rankings view if not) is qualifies(B, n), with n the taps
\* counted in that session and B the current bucket of the session's duration.
C2_ExpiryDecisionIsQualifies ==
    tevt.op = "expire" =>
        (tevt.qualified <=> qualifies(ranksByDuration[tevt.id], count))

\* C4: a pointer id whose pointer-down was counted while active is not counted
\* again before a pointer-up of that id, whatever other pointers do in between.
C4_NoRecountBeforeUp ==
    [][count' = count + 1 => lastPointerIdRef' \notin pressed]_vars

\* C7: in every reachable state every duration's bucket has at most 5 entries
\* and is sorted by descending score, ties by ascending date.
C7_BucketsTop5Sorted ==
    \A d \in DurationSet :
        /\ Len(ranksByDuration[d]) <= TOP_N
        /\ IsSorted(ranksByDuration[d])

\* C7 witness: a remote load has replaced a bucket with the first five of a
\* longer answer
C7_Witness ==
    /\ tevt.op = "loaded"
    /\ tevt.counted
    /\ Len(server[tevt.id]) > TOP_N
    /\ Len(ranksByDuration[tevt.id]) = TOP_N
    /\ ranksByDuration[tevt.id] = Slice(server[tevt.id], TOP_N)

\* ------------------------------------------- turn clock: persisted history
\* an entry an earlier game stored; a higher i is an older game
OldEntry(i) ==
    [loser |-> DefaultNames[1], timestamp |-> 0 - i, players |-> Slice(DefaultNames, 2)]
OldHistory(n) == [i \in 1..n |-> OldEntry(i)]

\* lengths of the histories the save effect has stored: none yet, one short
\* of the cap, at the cap
StoredLens == {0, MAX_HISTORY_ITEMS - 1, MAX_HISTORY_ITEMS}

\* what the key can hold at mount: nothing, text that is no JSON array, or an
\* array the save effect wrote
HistoryInputs ==
    {Missing} \cup {Text(k) : k \in CorruptKinds}
              \cup {HistoryText(OldHistory(n)) : n \in StoredLens}

InitSpecHistory ==
    /\ InitClockState
    /\ \E raw \in HistoryInputs : InitHistoryFrom(raw)
    /\ RankIdle
    /\ TapIdle

NextHistory ==
    \/ StartGame
    \/ Tick
    \/ RootClick
    \/ ResetDown
    \/ ResetTimer
    \/ ResetUp
    \/ ClearHistory
    \/ Advance

SpecHistory == InitSpecHistory /\ [][NextHistory]_vars

\* C11: whatever text that is no JSON array the history key holds, the
\* history state is an array (the empty one) from mount on, so that the
\* append at game over never raises.
C11_MalformedLoadsEmpty ==
    historyRaw.kind \in CorruptKinds => (historyKind = "array" /\ gameHistory = << >>)

\* C13: a step into over puts exactly one new entry at index 0, keeps the
\* older entries in their order behind it, and leaves at most
\* MAX_HISTORY_ITEMS entries: the oldest is the one dropped.
C13_PrependsAndCaps ==
    [][(clockPhase # "over" /\ clockPhase' = "over")
         => /\ Len(gameHistory') = Min(Len(gameHistory) + 1, MAX_HISTORY_ITEMS)
            /\ gameHistory'[1].timestamp = nowMs
            /\ \A i \in 2..Len(gameHistory') : gameHistory'[i] = gameHistory[i - 1]
            /\ Len(gameHistory') <= MAX_HISTORY_ITEMS]_vars

\* a game ended on a full history: the newest is first, the 50th is gone
C13_Witness ==
    /\ clockPhase = "over"
    /\ historyRaw = HistoryText(OldHistory(MAX_HISTORY_ITEMS))
    /\ Len(gameHistory) = MAX_HISTORY_ITEMS
    /\ gameHistory[1].timestamp > 0
    /\ gameHistory[MAX_HISTORY_ITEMS] = OldEntry(MAX_HISTORY_ITEMS - 1)

\* ------------------------------------------------- turn clock: the turns
\* k turns passed on from player p among n
RECURSIVE Rotate(_, _, _)
Rotate(p, n, k) == IF k = 0 THEN p ELSE Rotate(nextIdx(p, n), n, k - 1)

\* a step that passes the turn on while the clock is running
AdvanceTurnStep ==
    /\ started /\ running /\ ~gameOver
    /\ \/ RootClick
       \/ (started' /\ ~gameOver' /\ currentPlayer' # currentPlayer)

\* C12: while the clock is running, a turn advance moves the index to
\* (index + 1) mod numPlayers, sets the deadline to now + timePerTurn * 1000
\* and the remaining time to the full turn; numPlayers advances in a row
\* lead back to the player they started from.
C12_AdvanceRotates ==
    [][AdvanceTurnStep
         => /\ currentPlayer' = (currentPlayer + 1) % numPlayers
            /\ deadlineRef' = nowMs + timePerTurn * 1000
            /\ remainingMs' = timePerTurn * 1000
            /\ Rotate(currentPlayer, numPlayers, numPlayers) = currentPlayer]_vars

\* two players, 10 s: the turn was passed from player 0 to player 1 some
\* time into the game and the full 10 s are on the clock again
C12_Witness ==
    /\ started /\ running /\ ~gameOver
    /\ numPlayers = 2
    /\ timePerTurn = 10
    /\ currentPlayer = 1
    /\ nowMs > 0
    /\ deadlineRef = nowMs + 10000
    /\ remainingMs = 10000

\* ------------------------------------------------ turn clock: the phases
\* the turn ran out: the poll, or the effect's own first tick, found the
\* deadline reached
TimeExpired ==
    /\ Tick \/ AudioResumed
    /\ nowMs >= deadlineRef

\* C14: the phase changes only from idle to running by start, from running
\* to over by expiry of the turn, and from running or over to idle by reset;
\* an advance of the turn stays in running.
C14_PhaseTransitions ==
    [][/\ clockPhase' # clockPhase
          => \/ clockPhase = "idle" /\ clockPhase' = "running" /\ StartGame
             \/ clockPhase = "running" /\ clockPhase' = "over" /\ TimeExpired
             \/ clockPhase \in {"running", "over"} /\ clockPhase' = "idle" /\ ResetTimer
       /\ (AdvanceTurnStep /\ clockPhase = "running") => clockPhase' = "running"]_vars

\* a game was started, ran out and was reset: idle, running, over and idle
\* again have been passed
C14_Witness ==
    /\ clockPhase = "idle"
    /\ games = 1
    /\ Len(gameHistory) = 1
    /\ deadlineRef = NULL

\* ------------------------------------------- turn clock: the reset hold
NextHold ==
    \/ StartGame
    \/ Tick
    \/ RootClick
    \/ ResetDown
    \/ ResetTimer
    \/ ResetUp
    \/ ResetUpOutside
    \/ AdvancePoll

SpecHold == InitSpecClock /\ [][NextHold]_vars

\* C18: a press on the reset button held for 600 ms has reset the clock to
\* idle; a reset happens only on a press still held, and a release before
\* that is a turn advance when the clock is running.
C18_HoldOf600Resets ==
    [][/\ (resetPress.down /\ nowMs > resetPress.at + 600) => clockPhase = "idle"
       /\ ResetTimer => resetPress.down
       /\ (ResetUp /\ resetPress.down /\ nowMs < resetPress.at + 600
             /\ started /\ running /\ ~gameOver)
            => currentPlayer' = nextIdx(currentPlayer, numPlayers)]_vars

\* -------------------------------------------- tap session: the phases
\* a session, its reset button, and a second click on the start button
NextPhase ==
    \/ StartClickTwice
    \/ StartResumed
    \/ StartRejected
    \/ ReadyTick
    \/ ActiveTick
    \/ \E id \in BoardPointers : PointerDown(id)
    \/ beginResetHold
    \/ cancelResetHold
    \/ HoldReleasedUnheard
    \/ reset
    \/ \E d \in TapDurations : setDuration(d)
    \/ BackToGame
    \/ SkipName

SpecPhase == InitSpecTap /\ [][NextPhase]_vars

\* C15: the phase changes only from idle to ready by start, from ready to
\* active by the third tick of the lead-in, from active to finished by the
\* last tick of the duration, and from finished to idle by reset.
C15_PhaseTransitions ==
    [][phase' # phase
         => \/ phase = "idle" /\ phase' = "ready" /\ StartResumed
            \/ phase = "ready" /\ phase' = "active" /\ ReadyTick
            \/ phase = "active" /\ phase' = "finished" /\ ActiveTick
            \/ phase = "finished" /\ phase' = "idle" /\ reset]_vars

\* C15, as the code has it: start leads to ready from idle and from finished
\* (and from active, when a second call of start resumes then); the third
\* tick of the lead-in leads from ready to active; the last tick of the
\* duration from active to finished; reset leads to idle from ready, active
\* and finished.  Nothing leads from idle or finished to active, or from
\* idle or ready to finished.
C15_PhaseTransitionsOfCode ==
    [][phase' # phase
         => \/ phase \in {"idle", "finished", "active"} /\ phase' = "ready" /\ StartResumed
            \/ phase = "ready" /\ phase' = "active" /\ ReadyTick /\ readyTimer.n = 1
            \/ phase = "active" /\ phase' = "finished" /\ ActiveTick /\ activeTimer.n = 1
            \/ phase \in {"ready", "active", "finished"} /\ phase' = "idle" /\ reset]_vars

\* a session is in its lead-in whose start() was called with a tap of the
\* session before on the counter: it was started from finished
C15_Witness ==
    /\ phase = "ready"
    /\ readyTimer.live
    /\ readyTimer.count > 0
    /\ count = 0

\* ------------------------------------------ tap session: one session
\* sessions of every duration, run to their end
NextSession ==
    \/ StartClick
    \/ StartResumed
    \/ ReadyTick
    \/ ActiveTick
    \/ \E id \in BoardPointers : PointerDown(id)
    \/ \E id \in BoardPointers : PointerUp(id)
    \/ \E d \in DurationSet : setDuration(d)
    \/ ShowRankings
    \/ BackToGame
    \/ SkipName

SpecSession == InitSpecTap /\ [][NextSession]_vars

\* C16: from a start() with duration D on, and with no reset: the phase is
\* ready, with count 0, until the third tick; the third tick makes it active
\* with remaining = D; each tick after that takes 1 off remaining; the D-th
\* of them, with remaining = 0, makes it finished; count is the number of
\* taps accepted since the start.
C16_SessionTimeline ==
    session.live
      => /\ session.D \in DurationSet
         /\ session.ticks <= READY_TICKS + session.D
         /\ session.ticks < READY_TICKS <=> phase = "ready"
         /\ phase = "ready" => count = 0
         /\ (session.ticks >= READY_TICKS /\ session.ticks < READY_TICKS + session.D)
              <=> phase = "active"
         /\ phase = "active" => remaining = session.D - (session.ticks - READY_TICKS)
         /\ session.ticks = READY_TICKS + session.D <=> phase = "finished"
         /\ phase = "finished" => remaining = 0
         /\ count = session.taps

\* a session of 60 s has run out with two taps counted
C16_Witness ==
    /\ session.live
    /\ session.D = 60
    /\ phase = "finished"
    /\ session.ticks = 63
    /\ count = 2

\* ------------------------------------------------ tap session: the taps
\* C17: count goes up only by a pointer-down received while active, and
\* then by exactly 1; otherwise it changes only to 0, by start or reset.  A
\* pointer-down of a pointer that is not down yet is counted also while
\* other pointers are held.  A pointer-down in idle, ready or finished
\* leaves count alone, and count stays as it is for as long as the phase is
\* finished.
C17_CountOnlyByActiveDown ==
    [][/\ count' # count
          => \/ /\ count' = count + 1
                /\ phase = "active"
                /\ \E id \in PointerIds : PointerDown(id)
             \/ count' = 0 /\ (StartResumed \/ reset)
       /\ \A id \in PointerIds :
            /\ (PointerDown(id) /\ phase # "active") => count' = count
            /\ (PointerDown(id) /\ phase = "active" /\ id \notin pressed)
                 => (count' = count + 1 /\ pressed' = pressed \cup {id})
       /\ (phase = "finished" /\ phase' = "finished") => count' = count]_vars

\* both pointers are down and each was counted, and the session has ended
\* with these two taps
C17_Witness ==
    /\ phase = "finished"
    /\ pressed = PointerIds
    /\ count = 2
    /\ session.taps = 2

\* ------------------------------------------- tap session: the reset hold
\* C19: reset runs only on a press of the reset button that is still held
\* when the hold time is over, and then stops the timers and leaves phase
\* idle, count 0 and remaining = duration; a press let go before that
\* changes neither the phase nor count nor the timers.
C19_ResetOnlyWhileHeld ==
    [][/\ reset => /\ holdDown
                   /\ phase' = "idle"
                   /\ count' = 0
                   /\ remaining' = duration
                   /\ ~readyTimer'.live /\ ~activeTimer'.live
       /\ (cancelResetHold \/ HoldReleasedUnheard)
            => UNCHANGED << phase, count, remaining, readyTimer, activeTimer >>]_vars

\* ------------------------------------------------- tap session: the audio
\* C20: whether the audio context could be created and resumed or not, a
\* call of start() that comes back from sfx.resume() enters ready and sets
\* the countdown going.
C20_StartEntersReadyAnyway ==
    [][Len(pendingStarts') < Len(pendingStarts)
         => (phase' = "ready" /\ readyTimer'.live /\ count' = 0)]_vars

\* ------------------------------------------- tap session: registering
\* sessions of one pointer, and the register button clicked up to once more
\* than MaxPosts
NextSave ==
    \/ StartClick
    \/ StartResumed
    \/ ReadyTick
    \/ ActiveTick
    \/ \E id \in BoardPointers : PointerDown(id)
    \/ \E d \in BoardDurations : setDuration(d)
    \/ BackToGame
    \/ SkipName
    \/ \E n \in RankNames, t \in DateClock : saveNameAgain(n, t)
    \/ \E i \in FlowSlots, ok \in BOOLEAN : PostDone(i, ok)
    \/ \E i \in FlowSlots : GraceDone(i)
    \/ \E i \in FlowSlots, ok \in BOOLEAN : SaveLoaded(i, ok)

SpecSave == InitSpecTap /\ [][NextSave]_vars

\* the scoreboard as the endpoint had it at mount
ServerAtMount == [d \in DurationSet |-> IF d = 3 THEN SeedServer ELSE << >>]

\* C21: when the post of a score fails, the failure is told, the dialog and
\* the view stay as they are, the call ends without a reload, and count,
\* duration and the buckets are as before, so that the score can be
\* registered again.
C21_FailedPostChangesNothing ==
    [][\A i \in FlowSlots :
         PostDone(i, FALSE)
           => /\ tevt'.op = "alert"
              /\ UNCHANGED << showNameDialog, view, count, duration,
                              ranksByDuration, ls, server, gets >>
              /\ Len(saveFlow') = Len(saveFlow) - 1
              /\ \A j \in 1..Len(saveFlow') :
                    \E k \in 1..Len(saveFlow) : saveFlow'[j] = saveFlow[k]]_vars

\* the first post has failed, the dialog is still open, and the same score
\* is being posted again
C21_Witness ==
    /\ posts = 2
    /\ showNameDialog
    /\ server = ServerAtMount
    /\ Len(saveFlow) = 1
    /\ saveFlow[1].pc = "posting"
    /\ saveFlow[1].score = count
    /\ saveFlow[1].duration = duration

\* C22: a saveName call sends its reload only after its post has come back
\* with success and the grace delay after that is over; the dialog is closed
\* and the rankings are shown by that call only when its reload has come back.
C22_ReloadAfterPostAndGrace ==
    [][/\ \A j \in 1..Len(saveFlow') :
            /\ saveFlow'[j].pc = "grace" => saveFlow'[j].acked
            /\ saveFlow'[j].pc = "loading"
                 => (saveFlow'[j].acked /\ saveFlow'[j].waited)
       /\ (useRemote /\ showNameDialog /\ ~showNameDialog')
            => (SkipName \/ \E i \in FlowSlots, ok \in BOOLEAN : SaveLoaded(i, ok))
       /\ \A i \in FlowSlots, ok \in BOOLEAN :
            SaveLoaded(i, ok) => (saveFlow[i].acked /\ saveFlow[i].waited)]_vars

\* the reload of a registered score is under way: the score is on the
\* scoreboard, the dialog is still open
C22_Witness ==
    /\ Len(saveFlow) = 1
    /\ saveFlow[1].pc = "loading"
    /\ showNameDialog
    /\ view = "game"
    /\ Occurs(server[saveFlow[1].duration],
              Entry(saveFlow[1].name, saveFlow[1].score, saveFlow[1].date)) = 1

\* C29: the register action does not start a second submission while an
\* earlier one is still posting, in its grace delay or reloading.
C29_OneSubmissionAtATime ==
    [][Len(saveFlow') > Len(saveFlow) => saveFlow = << >>]_vars

\* ------------------------------------------------- turn clock: the reset
\* C23: the reset, from running as from over, leaves the clock idle with no
\* deadline, no remaining time and player 0 to move, and leaves the history,
\* the names, the number of players and the seconds per turn as they were.
C23_ResetIsUnconditional ==
    [][ResetTimer
         => /\ clockPhase \in {"running", "over", "idle"}
            /\ clockPhase' = "idle"
            /\ deadlineRef' = NULL
            /\ remainingMs' = 0
            /\ currentPlayer' = 0
            /\ ~running' /\ ~gameOver'
            /\ UNCHANGED << gameHistory, playerNames, numPlayers, timePerTurn >>]_vars

\* the reset has just run on a game of three that was over, with the
\* button still held: the history keeps the game
C23_Witness ==
    /\ resetHoldRef.held
    /\ clockPhase = "idle"
    /\ numPlayers = 3
    /\ Len(gameHistory) = 1
    /\ currentPlayer = 0
    /\ remainingMs = 0
    /\ deadlineRef = NULL

\* ---------------------------------------------------------------------------
\* A turn at the grain of the 100 ms poll: the game is started with either
\* time, audio is primed by the first gesture's resume(), the table is tapped.
NextCue ==
    \/ \E s \in TimeOptions : SetTimePerTurn(s)
    \/ StartGame
    \/ Tick
    \/ RootClick
    \/ AudioResumed
    \/ AdvancePollOfTurn

SpecCue == InitSpecClock /\ [][NextCue]_vars

\* C24: the cue of the turn clock is edge-triggered.  A step calls playBeep()
\* only in a run of tick(), for the second that run observes, and exactly when
\* that second differs from the last one observed, lies in 1..5 and audio is
\* primed; a poll that observes the same second again, a second above 5 and
\* the 0 of the expiry call nothing.  Within a turn (the deadline stands) the
\* observed second only falls, so no second is cued twice.
C24_CueIsEdgeTriggered ==
    [][/\ cue' # NULL
          => /\ cue' = ceilSecs(deadlineRef' - nowMs')
             /\ cue' = lastSecondRef'
             /\ lastSecondRef' # lastSecondRef
             /\ cue' \in 1..BEEP_FROM_SEC
             /\ audioPrimed'
       /\ (/\ deadlineRef' = deadlineRef
           /\ deadlineRef # NULL
           /\ lastSecondRef' # lastSecondRef
           /\ lastSecondRef' \in 1..BEEP_FROM_SEC
           /\ audioPrimed')
          => cue' = lastSecondRef'
       /\ (deadlineRef' = deadlineRef /\ deadlineRef # NULL /\ lastSecondRef' # lastSecondRef)
          => lastSecondRef' < lastSecondRef
       /\ (running /\ ~gameOver /\ Tick /\ historyKind = "array")
          => lastSecondRef' = ceilSecs(deadlineRef - nowMs)
      ]_vars

\* a turn of five seconds, one second before its deadline: the poll that is
\* the first to observe the second 1 has just cued it
C24_Witness ==
    /\ running
    /\ timePerTurn = 5
    /\ audioPrimed
    /\ cue = 1
    /\ deadlineRef - nowMs = 10 * PollMs

\* C25: while the session is in ready, the lead-in counter shown (remaining)
\* is the lead-in's own counter: 3 from the moment ready is entered, then 2
\* and 1 after the ticks.
C25_LeadInReadsThree ==
    (phase = "ready" /\ readyTimer.live) => remaining = readyTimer.n

\* C26: while the session is active, for every duration, the countdown cue has
\* been given once for each of the seconds 3, 2 and 1 that remaining has shown
\* so far, the one it shows now included, and for no other second.
C26_CueWhileThreeTwoOne ==
    (phase = "active" /\ activeTimer.live /\ session.live)
    => LET due == { k \in 1..CUE_FROM_SEC : k >= remaining /\ k <= session.D }
       IN  /\ Len(session.cues) = Cardinality(due)
           /\ { session.cues[i] : i \in DOMAIN session.cues } = due

\* C27: a click on the table, and a press or a short press-and-release of the
\* reset button, received while the clock is idle or over, leave the player
\* to move, the deadline, the time left, the phase and the history as they are.
C27_AdvanceOnlyWhileRunning ==
    [][((RootClick \/ ResetDown \/ ResetUp) /\ clockPhase \in {"idle", "over"})
       => /\ UNCHANGED << currentPlayer, deadlineRef, remainingMs, gameHistory,
                          running, gameOver, started, lastSecondRef >>
          /\ clockPhase' = clockPhase
      ]_vars

\* before any game: the table was clicked (only that click can have asked for
\* audio), and the clock is as it was at mount
C27_Witness ==
    /\ clockPhase = "idle"
    /\ games = 0
    /\ audioPending
    /\ currentPlayer = 0
    /\ deadlineRef = NULL
    /\ remainingMs = 0
    /\ ~running

\* C28: an expired turn cannot be rescued.  While the clock is running and the
\* time has reached the deadline (the last poll, less than one period ago, saw
\* time left), a tap neither replaces the deadline nor passes the turn on: the
\* next poll finds the deadline passed and ends the game.
C28_ExpiredTurnNotRescued ==
    [][(/\ clockPhase = "running"
        /\ deadlineRef # NULL
        /\ nowMs >= deadlineRef
        /\ remainingMs <= PollMs
        /\ (RootClick \/ ResetUp))
       => UNCHANGED << deadlineRef, currentPlayer >>
      ]_vars

\* C30: at most one countdown interval of the tap session is live, whatever
\* the order of starts (two of them suspended at the audio resume together),
\* resets and ticks.  The lead-in interval is live only in ready and the
\* measuring interval only in active, never both; a measuring interval is
\* never set up while another one is live, so the counter is stepped down by
\* one interval only; and a reset or the tick that reaches finished leaves no
\* interval live.
C30_OneIntervalLive ==
    [][/\ ~(readyTimer'.live /\ activeTimer'.live)
       /\ readyTimer'.live => phase' = "ready"
       /\ activeTimer'.live => phase' = "active"
       /\ (activeTimer.live /\ activeTimer'.live)
          => \/ activeTimer' = activeTimer
             \/ activeTimer' = [activeTimer EXCEPT !.n = @ - 1] /\ remaining' = activeTimer.n - 1
       /\ (readyTimer.live /\ readyTimer'.live /\ readyTimer' # readyTimer)
          => \/ readyTimer' = [readyTimer EXCEPT !.n = @ - 1] /\ remaining' = readyTimer.n - 1
             \/ session'.ticks = 0
       /\ (reset \/ (phase' = "finished" /\ phase # "finished"))
          => ~readyTimer'.live /\ ~activeTimer'.live
      ]_vars

\* the first of two starts has resumed and its lead-in has ticked once while
\* the second is still suspended at the audio resume
C30_Witness ==
    /\ Len(pendingStarts) = 1
    /\ readyTimer.live
    /\ readyTimer.n = 2
    /\ ~activeTimer.live
    /\ session.ticks = 1

\* ---------------------------------------------------------------------------
\* The tap session with its intervals firing: a live setInterval calls its
\* callback again and again until it is cleared.
SpecPhaseFair ==
    /\ InitSpecTap
    /\ [][NextPhase]_vars
    /\ WF_vars(ReadyTick)
    /\ WF_vars(ActiveTick)

\* C31: a tap session terminates.  Once the phase is ready, the session
\* reaches finished unless it is reset (which leaves it idle); it is finished
\* after 3 + duration ticks of its intervals, and while it is finished, until
\* a start begins the next session, neither interval is live.
C31_SessionTerminates ==
    /\ (phase = "ready") ~> (phase \in {"finished", "idle"})
    /\ [](phase = "finished" => ~readyTimer.live /\ ~activeTimer.live)
    /\ []((phase = "finished" /\ session.live)
          => session.ticks = READY_TICKS + session.D)

\* a session of ten seconds has run out after its thirteen ticks
C31_Witness ==
    /\ phase = "finished"
    /\ session.live
    /\ session.D = 10
    /\ session.ticks = READY_TICKS + 10
    /\ remaining = 0
    /\ ~readyTimer.live
    /\ ~activeTimer.live

====
